---- MODULE Spec2Model ----
(***************************************************************************)
(* Model of the contribution statistics engine of                          *)
(* src/src/contributions.py and of its driver script                       *)
(* src/src/find_political_donors.py.                                       *)
(*                                                                         *)
(* Numbers.  The code holds amounts as floats.  Here an amount is a        *)
(* fixed-point integer counting half cents (200 units to the dollar), so   *)
(* that the mean of two cent amounts, which the median needs, is an        *)
(* integer too.  Every amount that enters an estimator is a whole number   *)
(* of cents, that is an even number of units.                              *)
(***************************************************************************)
EXTENDS Integers, Sequences, FiniteSets

VARIABLES
    rm,             \* a stand-alone RunningMedian
    added,          \* the values added to rm, ascending
    dir,            \* how rm is fed: "any", "ascending", "descending"
    row,            \* ContributionManager.row
    contribution,   \* ContributionManager.contribution
    stats,          \* ContributionManager.stats
    writer_zip,     \* the lines written to writer_zip
    writer_date,    \* the lines written to writer_date
    ret,            \* what the last call returned
    exc,            \* the exception the last call raised, "" for none
    calls,          \* the calls made for the row last read
    pc,             \* where the caller stands
    nread,          \* the number of readline calls made
    accepted,       \* per family, what each predicate of the specification
                    \* admitted: (recipient, group) -> amounts, ascending
    py              \* the major version of the interpreter, 2 or 3

rmVars == <<rm, added, dir>>

cmVars == <<row, contribution, stats, writer_zip, writer_date, ret, exc>>

vars == <<rm, added, dir, row, contribution, stats, writer_zip, writer_date,
          ret, exc, calls, pc, nread, accepted, py>>

(***************************************************************************)
(* Bounds of the estimator specifications.                                 *)
(***************************************************************************)
MaxAdds == 12

\* the amounts fed to the stand-alone estimator: 0.00, 0.01 and 0.03
Values == {0, 2, 6}

(***************************************************************************)
(* heapq.  Every list the estimator keeps is the result of                 *)
(* heapq.nsmallest, which returns a sorted list, and a sorted list is a    *)
(* heap; one or two heap operations later it is sorted again.  A heap is   *)
(* therefore held as its sorted list: heap[1] is Python's heap[0].         *)
(***************************************************************************)
heappush(heap, item) ==
    LET k == Cardinality({i \in 1..Len(heap) : heap[i] <= item})
    IN  SubSeq(heap, 1, k) \o <<item>> \o SubSeq(heap, k + 1, Len(heap))

\* heapq.heappushpop: push item, then pop and return the smallest
heappushpop(heap, item) ==
    IF Len(heap) > 0 /\ heap[1] < item
    THEN [item |-> heap[1], heap |-> heappush(Tail(heap), item)]
    ELSE [item |-> item, heap |-> heap]

\* heapq.nsmallest(n, heap): the n smallest, in ascending order
nsmallest(n, heap) ==
    IF Len(heap) <= n THEN heap ELSE SubSeq(heap, 1, n)

\* the builtin min of a non-empty list
min(list) ==
    CHOOSE x \in {list[i] : i \in 1..Len(list)} :
        \A j \in 1..Len(list) : x <= list[j]

(***************************************************************************)
(* RunningMedian                                                           *)
(***************************************************************************)
\* the number of values each heap keeps
HeapKeep == 3

\* RunningMedian.__init__
RunningMedian ==
    [minheap |-> <<>>, maxheap |-> <<>>, even |-> TRUE,
     median |-> 0, count |-> 0, total |-> 0]

\* a balancing that, with the sizes equal, pushes a value that is not below
\* the lower root straight onto the lower heap
RebalanceNoMove(self, val) ==
    IF self.even
    THEN [self EXCEPT !.maxheap = heappush(self.maxheap, val * (-1)),
                      !.even = FALSE]
    ELSE IF val < self.maxheap[1] * (-1)
         THEN LET temp == heappushpop(self.maxheap, val * (-1))
              IN  [self EXCEPT !.maxheap = temp.heap,
                               !.minheap = heappush(self.minheap,
                                                    temp.item * (-1)),
                               !.even = TRUE]
         ELSE [self EXCEPT !.minheap = heappush(self.minheap, val),
                           !.even = TRUE]

\* RunningMedian.add, the push and the balancing of the two heaps.
\* maxheap holds the lower values negated.
Rebalance(self, val) ==
    IF self.even
    THEN IF Len(self.maxheap) = 0
         THEN [self EXCEPT !.maxheap = heappush(self.maxheap, val * (-1)),
                           !.even = FALSE]
         ELSE IF val < self.maxheap[1] * (-1)
         THEN [self EXCEPT !.maxheap = heappush(self.maxheap, val * (-1)),
                           !.even = FALSE]
         ELSE LET temp == heappushpop(self.minheap, val)
              IN  [self EXCEPT !.minheap = temp.heap,
                               !.maxheap = heappush(self.maxheap,
                                                    temp.item * (-1)),
                               !.even = FALSE]
    ELSE IF val < self.maxheap[1] * (-1)
         THEN LET temp == heappushpop(self.maxheap, val * (-1))
              IN  [self EXCEPT !.maxheap = temp.heap,
                               !.minheap = heappush(self.minheap,
                                                    temp.item * (-1)),
                               !.even = TRUE]
         ELSE [self EXCEPT !.minheap = heappush(self.minheap, val),
                           !.even = TRUE]

\* a truncation that keeps the far end of the lower heap
TruncateWrongEnd(self) ==
    [self EXCEPT !.maxheap =
                     IF Len(self.maxheap) <= HeapKeep THEN self.maxheap
                     ELSE SubSeq(self.maxheap,
                                 Len(self.maxheap) - HeapKeep + 1,
                                 Len(self.maxheap)),
                 !.minheap = nsmallest(HeapKeep, self.minheap)]

\* a truncation of the lower heap alone
TruncateLowerOnly(self) ==
    [self EXCEPT !.maxheap = nsmallest(HeapKeep, self.maxheap)]

\* a truncation that keeps one value fewer
TruncateShort(self) ==
    [self EXCEPT !.maxheap = nsmallest(HeapKeep - 1, self.maxheap),
                 !.minheap = nsmallest(HeapKeep - 1, self.minheap)]

\* RunningMedian.add, the truncation of both heaps
Truncate(self) ==
    [self EXCEPT !.maxheap = nsmallest(HeapKeep, self.maxheap),
                 !.minheap = nsmallest(HeapKeep, self.minheap)]

\* a tally that counts what the heaps hold instead of the calls
TallyHeld(self, val) ==
    [self EXCEPT !.count = Len(self.maxheap) + Len(self.minheap),
                 !.total = self.total + val]

\* RunningMedian.add, count and total
Tally(self, val) ==
    [self EXCEPT !.count = self.count + 1,
                 !.total = self.total + val]

\* a median that forgets that the lower heap holds negated values
RecomputeNegated(self) ==
    IF self.even
    THEN [self EXCEPT !.median =
              (min(self.maxheap) + min(self.minheap)) \div 2]
    ELSE [self EXCEPT !.median = min(self.maxheap)]

\* a median that reads the upper root when the lower side has one more
RecomputeUpper(self) ==
    IF self.even
    THEN [self EXCEPT !.median =
              (min(self.maxheap) * (-1) + min(self.minheap)) \div 2]
    ELSE [self EXCEPT !.median =
              IF Len(self.minheap) > 0 THEN min(self.minheap)
              ELSE min(self.maxheap) * (-1)]

\* RunningMedian.add, the new median
Recompute(self) ==
    IF self.even
    THEN [self EXCEPT !.median =
              (min(self.maxheap) * (-1) + min(self.minheap)) \div 2]
    ELSE [self EXCEPT !.median = min(self.maxheap) * (-1)]

\* RunningMedian.add
RMAdd(self, val) ==
    Recompute(Tally(Truncate(Rebalance(self, val)), val))

(***************************************************************************)
(* Python values.  A str is the sequence of its character codes, None is   *)
(* <<-1>> and the float v is <<-2, v>>, so that values of different types  *)
(* are comparable and never equal.                                         *)
(***************************************************************************)
None == <<-1>>

Float(v) == <<-2, v>>

FloatVal(x) == x[2]

\* the delimiter '|' of the input and of the output
Bar == 124

\* the '\n' that ends a line
NewLine == 10

\* str < str, lexicographic by character code
StrLess(a, b) ==
    \/ Len(a) < Len(b) /\ SubSeq(b, 1, Len(a)) = a
    \/ \E i \in 1..Len(a) :
         /\ i <= Len(b)
         /\ SubSeq(a, 1, i - 1) = SubSeq(b, 1, i - 1)
         /\ a[i] < b[i]

\* str.split(sep)
RECURSIVE split(_, _)
split(s, sep) ==
    LET at == {i \in 1..Len(s) : s[i] = sep}
    IN  IF at = {} THEN <<s>>
        ELSE LET i == CHOOSE k \in at : \A j \in at : k <= j
             IN  <<SubSeq(s, 1, i - 1)>> \o split(SubSeq(s, i + 1, Len(s)), sep)

\* sep.join(list)
RECURSIVE join(_, _)
join(sep, list) ==
    IF Len(list) = 0 THEN <<>>
    ELSE IF Len(list) = 1 THEN list[1]
    ELSE list[1] \o <<sep>> \o join(sep, Tail(list))

\* the value of a string of decimal digits
RECURSIVE DigitsVal(_)
DigitsVal(s) ==
    IF Len(s) = 0 THEN 0
    ELSE 10 * DigitsVal(SubSeq(s, 1, Len(s) - 1)) + (s[Len(s)] - 48)

\* float(s) for the inputs of this model: digits with at most one '.' and
\* at most two decimals give the amount, anything else among the inputs
\* (the empty string, letters) is a ValueError, here None
float(s) ==
    LET dots == {i \in 1..Len(s) : s[i] = 46}
        p    == IF dots = {} THEN Len(s) + 1
                ELSE CHOOSE k \in dots : \A j \in dots : k <= j
        ip   == SubSeq(s, 1, p - 1)
        fp   == SubSeq(s, p + 1, Len(s))
    IN  IF \/ Cardinality(dots) > 1
           \/ \E i \in 1..Len(s) : s[i] \notin (48..57) \cup {46}
           \/ Len(ip) + Len(fp) = 0
           \/ Len(fp) > 2
        THEN None
        ELSE Float(DigitsVal(ip) * 200
                   + (IF Len(fp) = 1 THEN DigitsVal(fp) * 20
                      ELSE DigitsVal(fp) * 2))

\* str(n) of an int
RECURSIVE str(_)
str(n) ==
    IF n < 0 THEN <<45>> \o str(0 - n)
    ELSE IF n < 10 THEN <<48 + n>>
    ELSE str(n \div 10) \o <<48 + (n % 10)>>

\* the interpreters the code runs under: it is written for Python 2 and
\* contributions.py runs unchanged under Python 3
Interpreters == {2, 3}

\* a rounding that takes every half up, under either interpreter
roundHalfUp(x) == (x + 100) \div 200

\* int(round(x)) of an amount, to the nearest whole number: Python 2 takes
\* a half away from zero, Python 3 takes a half to the even neighbour
round(x) ==
    IF py = 2
    THEN IF x >= 0 THEN (x + 100) \div 200
         ELSE 0 - ((100 - x) \div 200)
    ELSE LET q == x \div 200
             r == x % 200
         IN  IF r < 100 THEN q
             ELSE IF r > 100 THEN q + 1
             ELSE IF q % 2 = 0 THEN q ELSE q + 1

\* a sort that puts the greatest key first
RECURSIVE sortedReverse(_)
sortedReverse(keys) ==
    IF keys = {} THEN <<>>
    ELSE LET first == CHOOSE k \in keys :
                          \A other \in keys : other = k \/ StrLess(other, k)
         IN  <<first>> \o sortedReverse(keys \ {first})

\* sorted(keys) of a set of str
RECURSIVE sorted(_)
sorted(keys) ==
    IF keys = {} THEN <<>>
    ELSE LET first == CHOOSE k \in keys :
                          \A other \in keys : other = k \/ StrLess(k, other)
         IN  <<first>> \o sorted(keys \ {first})

\* a dict with the key set to the value
SetItem(dict, key, value) ==
    [k \in DOMAIN dict \cup {key} |-> IF k = key THEN value ELSE dict[k]]

\* {}
EmptyDict == [k \in {} |-> None]

(***************************************************************************)
(* Contribution                                                            *)
(***************************************************************************)
\* Contribution.__init__
Contribution ==
    [cmte_id |-> None, zip_code |-> None, transaction_dt |-> None,
     transaction_amt |-> None, other_id |-> None]

\* a parse that assigns the other id before it converts the amount
parse_contributionOtherFirst(row_list) ==
    LET n  == Len(row_list)
        c1 == [Contribution EXCEPT !.cmte_id = row_list[1]]
        c2 == [c1 EXCEPT !.zip_code =
                   IF Len(row_list[11]) <= 5 THEN row_list[11]
                   ELSE SubSeq(row_list[11], 1, 5)]
        c3 == [c2 EXCEPT !.transaction_dt = row_list[14]]
        c4 == [c3 EXCEPT !.other_id = row_list[16]]
        c5 == [c4 EXCEPT !.transaction_amt = float(row_list[15])]
    IN  IF n < 11 THEN [contribution |-> c1, exc |-> "IndexError"]
        ELSE IF n < 14 THEN [contribution |-> c2, exc |-> "IndexError"]
        ELSE IF n < 16 THEN [contribution |-> c3, exc |-> "IndexError"]
        ELSE IF float(row_list[15]) = None
             THEN [contribution |-> c4, exc |-> "ValueError"]
        ELSE [contribution |-> c5, exc |-> ""]

\* Contribution.parse_contribution: the attributes are assigned in turn,
\* and an exception leaves the later ones None
parse_contribution(row_list) ==
    LET n  == Len(row_list)
        c1 == [Contribution EXCEPT !.cmte_id = row_list[1]]
        c2 == [c1 EXCEPT !.zip_code =
                   IF Len(row_list[11]) <= 5 THEN row_list[11]
                   ELSE SubSeq(row_list[11], 1, 5)]
        c3 == [c2 EXCEPT !.transaction_dt = row_list[14]]
        c4 == [c3 EXCEPT !.transaction_amt = float(row_list[15])]
        c5 == [c4 EXCEPT !.other_id = row_list[16]]
    IN  IF n < 11 THEN [contribution |-> c1, exc |-> "IndexError"]
        ELSE IF n < 14 THEN [contribution |-> c2, exc |-> "IndexError"]
        ELSE IF n < 15 THEN [contribution |-> c3, exc |-> "IndexError"]
        ELSE IF float(row_list[15]) = None
             THEN [contribution |-> c3, exc |-> "ValueError"]
        ELSE IF n < 16 THEN [contribution |-> c4, exc |-> "IndexError"]
        ELSE [contribution |-> c5, exc |-> ""]

(***************************************************************************)
(* Stats, StatsByZip, StatsByDate.  data maps a recipient to a dict that   *)
(* maps a group to its RunningMedian.                                      *)
(***************************************************************************)
\* StatsByZip._get_group and StatsByDate._get_group
get_group(family, c) ==
    IF family = "zip_code" THEN c.zip_code ELSE c.transaction_dt

\* an add that gives the recipient a fresh dict for every new group
StatsAddReset(data, family, c) ==
    LET cmte_id == c.cmte_id
        amnt    == c.transaction_amt
        group   == get_group(family, c)
        d1 == IF cmte_id \notin DOMAIN data
              THEN SetItem(data, cmte_id, EmptyDict) ELSE data
        d2 == IF group \notin DOMAIN d1[cmte_id]
              THEN SetItem(d1, cmte_id,
                           SetItem(EmptyDict, group, RunningMedian))
              ELSE d1
    IN  IF amnt = None THEN d2
        ELSE SetItem(d2, cmte_id,
                     SetItem(d2[cmte_id], group,
                             RMAdd(d2[cmte_id][group], FloatVal(amnt))))

\* an add that gives the amount to every group of the recipient
StatsAddAllGroups(data, family, c) ==
    LET cmte_id == c.cmte_id
        amnt    == c.transaction_amt
        group   == get_group(family, c)
        d1 == IF cmte_id \notin DOMAIN data
              THEN SetItem(data, cmte_id, EmptyDict) ELSE data
        d2 == IF group \notin DOMAIN d1[cmte_id]
              THEN SetItem(d1, cmte_id,
                           SetItem(d1[cmte_id], group, RunningMedian))
              ELSE d1
    IN  IF amnt = None THEN d2
        ELSE SetItem(d2, cmte_id,
                     [g \in DOMAIN d2[cmte_id] |->
                          RMAdd(d2[cmte_id][g], FloatVal(amnt))])

\* Stats.add: both dict entries are made before RunningMedian.add runs; an
\* amount of None makes RunningMedian.add raise before it changes anything
StatsAdd(data, family, c) ==
    LET cmte_id == c.cmte_id
        amnt    == c.transaction_amt
        group   == get_group(family, c)
        d1 == IF cmte_id \notin DOMAIN data
              THEN SetItem(data, cmte_id, EmptyDict) ELSE data
        d2 == IF group \notin DOMAIN d1[cmte_id]
              THEN SetItem(d1, cmte_id,
                           SetItem(d1[cmte_id], group, RunningMedian))
              ELSE d1
    IN  IF amnt = None THEN d2
        ELSE SetItem(d2, cmte_id,
                     SetItem(d2[cmte_id], group,
                             RMAdd(d2[cmte_id][group], FloatVal(amnt))))

\* a line whose last field repeats the median
FormatLineMedianTwice(cmte_id, group, running_median) ==
    LET amnt  == str(round(running_median.median))
        cnt   == str(round(running_median.count * 200))
        total == str(round(running_median.median))
    IN  join(Bar, <<cmte_id, group, amnt, cnt, total>>) \o <<NewLine>>

\* the line both write methods build for one estimator
FormatLine(cmte_id, group, running_median) ==
    LET amnt  == str(round(running_median.median))
        cnt   == str(round(running_median.count * 200))
        total == str(round(running_median.total))
    IN  join(Bar, <<cmte_id, group, amnt, cnt, total>>) \o <<NewLine>>

\* StatsByZip.write: the line, or None for a KeyError
StatsByZipWrite(data, c) ==
    LET cmte_id == c.cmte_id
        group   == get_group("zip_code", c)
    IN  IF cmte_id \notin DOMAIN data THEN None
        ELSE IF group \notin DOMAIN data[cmte_id] THEN None
        ELSE FormatLine(cmte_id, group, data[cmte_id][group])

\* StatsByDate.write, the inner loop over the dates of one recipient
RECURSIVE DateLines(_, _, _)
DateLines(cmte_id, date_running_median, dts) ==
    IF dts = <<>> THEN <<>>
    ELSE <<FormatLine(cmte_id, Head(dts), date_running_median[Head(dts)])>>
         \o DateLines(cmte_id, date_running_median, Tail(dts))

\* StatsByDate.write, the outer loop over the recipients
RECURSIVE RecipientLines(_, _)
RecipientLines(data, cmte_ids) ==
    IF cmte_ids = <<>> THEN <<>>
    ELSE LET cmte_id == Head(cmte_ids)
         IN  DateLines(cmte_id, data[cmte_id], sorted(DOMAIN data[cmte_id]))
             \o RecipientLines(data, Tail(cmte_ids))

\* StatsByDate.write: all the lines it yields, in order
StatsByDateWrite(data) ==
    RecipientLines(data, sorted(DOMAIN data))

(***************************************************************************)
(* What was added, kept in ascending order, for stating the claims.        *)
(***************************************************************************)
InsertSorted(seq, x) ==
    LET k == Cardinality({i \in 1..Len(seq) : seq[i] <= x})
    IN  SubSeq(seq, 1, k) \o <<x>> \o SubSeq(seq, k + 1, Len(seq))

RECURSIVE SumSeq(_)
SumSeq(seq) == IF seq = <<>> THEN 0 ELSE Head(seq) + SumSeq(Tail(seq))

\* the median of a non-empty ascending sequence
TrueMedian(asc) ==
    LET n == Len(asc)
    IN  IF n % 2 = 1 THEN asc[(n + 1) \div 2]
        ELSE (asc[n \div 2] + asc[n \div 2 + 1]) \div 2

(***************************************************************************)
(* The input.  A line has 17 fields: the recipient, nine unused fields,    *)
(* the zip code, two unused fields, the date, the amount, the other id and *)
(* a last unused field that carries the newline.                           *)
(***************************************************************************)
MkLine(cmte_id, zip, dt, amt, other) ==
    join(Bar, <<cmte_id, <<>>, <<>>, <<>>, <<>>, <<>>, <<>>, <<>>, <<>>,
                <<>>, zip, <<>>, <<>>, dt, amt, other, <<NewLine>> >>)

\* the number of lines of the input file
MaxRecords == 4

RecipA == <<65>>
RecipB == <<66>>
Zip9   == <<57, 48, 50, 49, 48, 49, 50, 51, 52>>   \* "902101234"
Zip5   == <<49, 48, 48, 48, 49>>                   \* "10001"
Zip3   == <<49, 50, 51>>                           \* "123"
Date1  == <<50, 48, 49, 55, 48, 49, 48, 49>>       \* "20170101"
Date2  == <<50, 48, 49, 55, 48, 49, 48, 50>>       \* "20170102"
Date7  == <<50, 48, 49, 55, 48, 49, 48>>           \* "2017010"
Amt050 == <<48, 46, 53, 48>>                       \* "0.50"
Amt1   == <<49>>                                   \* "1"
Amt249 == <<50, 46, 52, 57>>                       \* "2.49"
AmtAbc == <<97, 98, 99>>                           \* "abc"
OtherX == <<88>>                                   \* "X"

\* the lines an input file is made of
Lines ==
    { MkLine(RecipA, Zip9, Date2, Amt050, <<>>),
      MkLine(RecipA, Zip9, Date2, Amt249, <<>>),
      MkLine(RecipA, Zip5, Date1, Amt1, <<>>),
      MkLine(RecipB, Zip9, Date1, Amt249, <<>>),
      MkLine(RecipB, Zip9, Date2, Amt050, <<>>),
      MkLine(RecipA, Zip3, Date1, Amt1, <<>>),      \* short zip
      MkLine(RecipA, Zip9, Date7, Amt1, <<>>),      \* short date
      MkLine(RecipA, Zip9, Date2, Amt1, OtherX),    \* other id
      MkLine(RecipB, Zip3, Date7, Amt050, OtherX),  \* other id, short fields
      MkLine(<<>>, Zip9, Date2, Amt1, <<>>),        \* no recipient
      MkLine(RecipA, Zip9, Date2, <<>>, <<>>),      \* no amount
      MkLine(RecipB, Zip9, Date1, AmtAbc, <<>>),    \* amount not a number
      <<NewLine>> }                                 \* blank line

(***************************************************************************)
(* ContributionManager.  Each method is an action on the attributes of the *)
(* object, ret and exc; a method that raises leaves what it had not yet    *)
(* assigned as it was.                                                     *)
(***************************************************************************)
\* ContributionManager.__init__
CMInit ==
    /\ row = None
    /\ contribution = None
    /\ stats = [zip_code |-> EmptyDict, date |-> EmptyDict]
    /\ writer_zip = <<>>
    /\ writer_date = <<>>
    /\ ret = "None"
    /\ exc = ""
    /\ nread = 0

\* ContributionManager.read_contribution: readline gives the next line of
\* the file, or '' at its end and ever after
read_contribution ==
    /\ \E line \in (IF row = <<>> \/ nread >= MaxRecords THEN {<<>>}
                    ELSE Lines \cup {<<>>}) :
         /\ row' = line
         /\ ret' = IF Len(line) > 0 THEN "True" ELSE "False"
    /\ nread' = IF nread < MaxRecords THEN nread + 1 ELSE nread
    /\ exc' = ""
    /\ UNCHANGED <<contribution, stats, writer_zip, writer_date>>

\* ContributionManager.create_contribution
create_contribution ==
    LET row_list == split(row, Bar)
        parsed   == parse_contribution(row_list)
    IN  /\ contribution' = parsed.contribution
        /\ exc' = parsed.exc
        /\ ret' = "None"
        /\ UNCHANGED <<row, nread, stats, writer_zip, writer_date>>

\* a zip-code test that forgets the other id
ZipOmittedNoOther(c) ==
    IF c.cmte_id = <<>> \/ c.transaction_amt = <<>> THEN TRUE
    ELSE IF Len(c.zip_code) < 5 THEN TRUE
    ELSE FALSE

\* ContributionManager.update_running_zip_code, the tests that omit a record
ZipOmitted(c) ==
    IF c.other_id # <<>> THEN TRUE
    ELSE IF c.cmte_id = <<>> \/ c.transaction_amt = <<>> THEN TRUE
    ELSE IF Len(c.zip_code) < 5 THEN TRUE
    ELSE FALSE

\* a date test that takes any date of at most 8 characters
DateOmittedShort(c) ==
    IF c.other_id # <<>> THEN TRUE
    ELSE IF c.cmte_id = <<>> \/ c.transaction_amt = <<>> THEN TRUE
    ELSE IF Len(c.transaction_dt) > 8 THEN TRUE
    ELSE FALSE

\* ContributionManager.update_running_date, the tests that omit a record
DateOmitted(c) ==
    IF c.other_id # <<>> THEN TRUE
    ELSE IF c.cmte_id = <<>> \/ c.transaction_amt = <<>> THEN TRUE
    ELSE IF Len(c.transaction_dt) # 8 THEN TRUE
    ELSE FALSE

\* ContributionManager.update_running_zip_code
update_running_zip_code ==
    /\ IF ZipOmitted(contribution)
       THEN /\ ret' = "False"
            /\ exc' = ""
            /\ UNCHANGED stats
       ELSE /\ stats' = [stats EXCEPT !.zip_code =
                             StatsAdd(stats.zip_code, "zip_code", contribution)]
            /\ IF contribution.transaction_amt = None
               THEN ret' = "None" /\ exc' = "TypeError"
               ELSE ret' = "True" /\ exc' = ""
    /\ UNCHANGED <<row, nread, contribution, writer_zip, writer_date>>

\* ContributionManager.update_running_date
update_running_date ==
    /\ IF DateOmitted(contribution)
       THEN /\ exc' = ""
            /\ UNCHANGED stats
       ELSE /\ stats' = [stats EXCEPT !.date =
                             StatsAdd(stats.date, "date", contribution)]
            /\ exc' = IF contribution.transaction_amt = None
                      THEN "TypeError" ELSE ""
    /\ ret' = "None"
    /\ UNCHANGED <<row, nread, contribution, writer_zip, writer_date>>

\* ContributionManager.write_stats('zip_code')
write_stats_zip_code ==
    LET line == StatsByZipWrite(stats.zip_code, contribution)
    IN  /\ IF line = None
           THEN exc' = "KeyError" /\ UNCHANGED writer_zip
           ELSE exc' = "" /\ writer_zip' = Append(writer_zip, line)
        /\ ret' = "None"
        /\ UNCHANGED <<row, nread, contribution, stats, writer_date>>

\* ContributionManager.write_stats('date')
write_stats_date ==
    /\ writer_date' = writer_date \o StatsByDateWrite(stats.date)
    /\ ret' = "None"
    /\ exc' = ""
    /\ UNCHANGED <<row, nread, contribution, stats, writer_zip>>

(***************************************************************************)
(* What the two predicates of the specification admit, recorded beside the *)
(* program for stating the claims: per family the amounts admitted for     *)
(* each (recipient, group), and the zip-code pairs in arrival order.       *)
(***************************************************************************)
NoneAccepted ==
    [zip_code |-> [p \in {} |-> <<>>], date |-> [p \in {} |-> <<>>],
     zip_seq |-> <<>>]

Parsed(c) == c.transaction_amt # None /\ c.other_id # None

ZipAccepts(c) ==
    /\ Parsed(c)
    /\ c.other_id = <<>>
    /\ c.cmte_id # <<>>
    /\ Len(c.zip_code) = 5

DateAccepts(c) ==
    /\ Parsed(c)
    /\ c.other_id = <<>>
    /\ c.cmte_id # <<>>
    /\ Len(c.transaction_dt) = 8

Admit(acc, family, c) ==
    LET pair == <<c.cmte_id, get_group(family, c)>>
        old  == IF pair \in DOMAIN acc[family] THEN acc[family][pair]
                ELSE <<>>
    IN  [acc EXCEPT ![family] =
             SetItem(acc[family], pair,
                     InsertSorted(old, FloatVal(c.transaction_amt)))]

AdmitZip(acc, c) ==
    IF ZipAccepts(c)
    THEN [Admit(acc, "zip_code", c) EXCEPT
              !.zip_seq = Append(acc.zip_seq, <<c.cmte_id, c.zip_code>>)]
    ELSE acc

AdmitDate(acc, c) ==
    IF DateAccepts(c) THEN Admit(acc, "date", c) ELSE acc

(***************************************************************************)
(* Specification Spec: a caller of ContributionManager that goes on after  *)
(* an exception.  It reads a line; if there is one it parses it, offers    *)
(* the record to the two families in either order and asks for the         *)
(* zip-code line once the zip-code family has had the record; then it      *)
(* reads the next line.  When there is no line it writes the dates and     *)
(* closes.                                                                 *)
(***************************************************************************)
Init ==
    /\ rm = RunningMedian
    /\ added = <<>>
    /\ dir = "none"
    /\ CMInit
    /\ calls = {}
    /\ pc = "client"
    /\ accepted = NoneAccepted
    /\ py \in Interpreters

AllCalls == {"create", "zip", "write", "date"}

CallRead ==
    /\ pc = "client"
    /\ row = None \/ calls = AllCalls
    /\ read_contribution
    /\ calls' = {}
    /\ UNCHANGED <<rmVars, pc, accepted, py>>

CallCreate ==
    /\ pc = "client"
    /\ row # None
    /\ ret = "True"
    /\ calls = {}
    /\ create_contribution
    /\ calls' = calls \cup {"create"}
    /\ UNCHANGED <<rmVars, pc, accepted, py>>

CallUpdateZip ==
    /\ pc = "client"
    /\ "create" \in calls
    /\ "zip" \notin calls
    /\ update_running_zip_code
    /\ calls' = calls \cup {"zip"}
    /\ accepted' = AdmitZip(accepted, contribution)
    /\ UNCHANGED <<rmVars, pc, py>>

CallUpdateDate ==
    /\ pc = "client"
    /\ "create" \in calls
    /\ "date" \notin calls
    /\ update_running_date
    /\ calls' = calls \cup {"date"}
    /\ accepted' = AdmitDate(accepted, contribution)
    /\ UNCHANGED <<rmVars, pc, py>>

CallWriteZip ==
    /\ pc = "client"
    /\ "zip" \in calls
    /\ "write" \notin calls
    /\ write_stats_zip_code
    /\ calls' = calls \cup {"write"}
    /\ UNCHANGED <<rmVars, pc, accepted, py>>

CallWriteDate ==
    /\ pc = "client"
    /\ row = <<>>
    /\ write_stats_date
    /\ pc' = "batched"
    /\ UNCHANGED <<rmVars, calls, accepted, py>>

\* ContributionManager.close
CallClose ==
    /\ pc = "batched"
    /\ pc' = "closed"
    /\ UNCHANGED <<rmVars, cmVars, nread, calls, accepted, py>>

Next ==
    \/ CallRead
    \/ CallCreate
    \/ CallUpdateZip
    \/ CallUpdateDate
    \/ CallWriteZip
    \/ CallWriteDate
    \/ CallClose

Spec == Init /\ [][Next]_vars

(***************************************************************************)
(* Specification SpecMain: the script find_political_donors.py.            *)
(***************************************************************************)
InitMain ==
    /\ rm = RunningMedian
    /\ added = <<>>
    /\ dir = "none"
    /\ CMInit
    /\ calls = {}
    /\ pc = "while"
    /\ accepted = NoneAccepted
    /\ py \in Interpreters

\* a loop test that is inverted
MainWhileInverted ==
    /\ pc = "while"
    /\ read_contribution
    /\ pc' = IF ret' = "True" THEN "batch" ELSE "create"
    /\ UNCHANGED <<rmVars, calls, accepted, py>>

\* while my_contribution.read_contribution():
MainWhile ==
    /\ pc = "while"
    /\ read_contribution
    /\ pc' = IF ret' = "True" THEN "create" ELSE "batch"
    /\ UNCHANGED <<rmVars, calls, accepted, py>>

\* my_contribution.create_contribution(); an exception ends the script
MainCreate ==
    /\ pc = "create"
    /\ create_contribution
    /\ pc' = IF exc' = "" THEN "if" ELSE "raised"
    /\ UNCHANGED <<rmVars, calls, accepted, py>>

\* the body of the loop.  ContributionManager has no attribute
\* update_running_median, so the call raises AttributeError and the
\* script ends before write_stats('zip_code')
MainIf ==
    /\ pc = "if"
    /\ IF contribution.other_id = <<>>
       THEN /\ exc' = "AttributeError"
            /\ pc' = "raised"
       ELSE /\ exc' = exc
            /\ pc' = "while"
    /\ accepted' = AdmitDate(AdmitZip(accepted, contribution), contribution)
    /\ UNCHANGED <<rmVars, row, nread, contribution, stats, writer_zip,
                   writer_date, ret, calls, py>>

\* my_contribution.write_stats('date')
MainBatch ==
    /\ pc = "batch"
    /\ write_stats_date
    /\ pc' = "close"
    /\ UNCHANGED <<rmVars, calls, accepted, py>>

\* my_contribution.close()
MainClose ==
    /\ pc = "close"
    /\ pc' = "done"
    /\ UNCHANGED <<rmVars, cmVars, nread, calls, accepted, py>>

NextMain ==
    \/ MainWhile
    \/ MainCreate
    \/ MainIf
    \/ MainBatch
    \/ MainClose

SpecMain == InitMain /\ [][NextMain]_vars

(***************************************************************************)
(* Specification SpecRM: one fresh estimator, values added in any order.   *)
(***************************************************************************)
InitRM ==
    /\ rm = RunningMedian
    /\ added = <<>>
    /\ dir = "any"
    /\ CMInit
    /\ calls = {}
    /\ pc = "estimator"
    /\ accepted = NoneAccepted
    /\ py \in Interpreters

AddValue ==
    /\ dir = "any"
    /\ rm.count < MaxAdds
    /\ \E val \in Values :
         /\ rm' = RMAdd(rm, val)
         /\ added' = InsertSorted(added, val)
    /\ UNCHANGED <<dir, cmVars, nread, calls, pc, accepted, py>>

NextRM == AddValue

SpecRM == InitRM /\ [][NextRM]_vars

(***************************************************************************)
(* Specification SpecMono: one fresh estimator, fed a sorted input.        *)
(***************************************************************************)
InitMono ==
    /\ rm = RunningMedian
    /\ added = <<>>
    /\ dir \in {"ascending", "descending"}
    /\ CMInit
    /\ calls = {}
    /\ pc = "estimator"
    /\ accepted = NoneAccepted
    /\ py \in Interpreters

AddAscending ==
    /\ dir = "ascending"
    /\ rm.count < MaxAdds
    /\ \E val \in Values :
         /\ added # <<>> => val >= added[Len(added)]
         /\ rm' = RMAdd(rm, val)
         /\ added' = InsertSorted(added, val)
    /\ UNCHANGED <<dir, cmVars, nread, calls, pc, accepted, py>>

AddDescending ==
    /\ dir = "descending"
    /\ rm.count < MaxAdds
    /\ \E val \in Values :
         /\ added # <<>> => val <= added[1]
         /\ rm' = RMAdd(rm, val)
         /\ added' = InsertSorted(added, val)
    /\ UNCHANGED <<dir, cmVars, nread, calls, pc, accepted, py>>

NextMono == AddAscending \/ AddDescending

SpecMono == InitMono /\ [][NextMono]_vars

(***************************************************************************)
(* C1.  After every add, count is the number of add calls made and total   *)
(* is the exact sum of the values added, also once the heaps have been     *)
(* truncated.                                                              *)
(***************************************************************************)
C1_CountTotalExact ==
    /\ rm.count = Len(added)
    /\ rm.total = SumSeq(added)

\* more values were added than the two heaps can hold
C1_Witness ==
    /\ rm.count > 2 * HeapKeep
    /\ Len(rm.maxheap) = HeapKeep
    /\ Len(rm.minheap) = HeapKeep
    /\ rm.total > 0

(***************************************************************************)
(* C2.  For at most 6 values added in any order, the median after each     *)
(* add is the true median of all the values added.                         *)
(***************************************************************************)
C2_ExactUpToSix ==
    (rm.count >= 1 /\ rm.count <= 6) => rm.median = TrueMedian(added)

\* six values, not all equal, fill both heaps; the median is a mean
C2_Witness ==
    /\ rm.count = 6
    /\ added[3] # added[4]
    /\ rm.median = (added[3] + added[4]) \div 2

(***************************************************************************)
(* C3.  As claimed: for a sorted input of any length, the median after     *)
(* each add is the true median of all the values added.                    *)
(***************************************************************************)
C3_Original ==
    rm.count >= 1 => rm.median = TrueMedian(added)

(***************************************************************************)
(* C3, amended.  For a sorted input of at most 11 values, the median       *)
(* after each add is the true median of all the values added.              *)
(***************************************************************************)
C3_ExactUpToEleven ==
    (rm.count >= 1 /\ rm.count <= 11) => rm.median = TrueMedian(added)

\* eleven sorted values, not all equal, of which the heaps kept six
C3_Witness ==
    /\ rm.count = 11
    /\ added[1] # added[11]
    /\ Len(rm.maxheap) + Len(rm.minheap) = 2 * HeapKeep

(***************************************************************************)
(* Helpers for stating the claims about the manager.                       *)
(***************************************************************************)
\* the step is the call of update_running_zip_code
ZipStep == "zip" \in calls' /\ "zip" \notin calls

\* the step is the call of update_running_date
DateStep == "date" \in calls' /\ "date" \notin calls

\* the count of the estimator of (cmte_id, group), 0 when there is none
CountOf(data, cmte_id, group) ==
    IF cmte_id \notin DOMAIN data THEN 0
    ELSE IF group \notin DOMAIN data[cmte_id] THEN 0
    ELSE data[cmte_id][group].count

\* the fields of an output line, without its newline
Fields(line) == split(SubSeq(line, 1, Len(line) - 1), Bar)

LineKey(line) == <<Fields(line)[1], Fields(line)[2]>>

\* the first of two (recipient, group) keys comes strictly before the second
KeyLess(k1, k2) ==
    \/ StrLess(k1[1], k2[1])
    \/ k1[1] = k2[1] /\ StrLess(k1[2], k2[2])

\* the line of a pair shows the count and the rounded total of the amounts
ShowsAmounts(line, amounts) ==
    /\ Fields(line)[4] = str(Len(amounts))
    /\ Fields(line)[5] = str(round(SumSeq(amounts)))

(***************************************************************************)
(* C4.  A record with a non-empty other id, or with an empty recipient,    *)
(* changes neither aggregator: update_running_zip_code and                 *)
(* update_running_date leave every estimator and every key as it was.      *)
(***************************************************************************)
C4_RejectedChangesNothing ==
    [][ ( /\ ZipStep \/ DateStep
          /\ Parsed(contribution)
          /\ contribution.other_id # <<>> \/ contribution.cmte_id = <<>> )
        => stats' = stats ]_vars

\* a record with an other id, whose recipient and zip code already have an
\* estimator, has been offered to both families
C4_Witness ==
    /\ pc = "client"
    /\ {"zip", "date"} \subseteq calls
    /\ Parsed(contribution)
    /\ contribution.other_id = OtherX
    /\ CountOf(stats.zip_code, contribution.cmte_id, contribution.zip_code) > 0
    /\ CountOf(stats.date, contribution.cmte_id,
               contribution.transaction_dt) > 0

(***************************************************************************)
(* C5.  For a record with an empty other id and a recipient, the zip-code  *)
(* update adds it if and only if its truncated zip code has 5 characters,  *)
(* the date update adds it if and only if its date has 8 characters, and   *)
(* neither update touches the other family.                                *)
(***************************************************************************)
C5_PredicatesIndependent ==
    [][ LET c == contribution
        IN  /\ ( /\ ZipStep
                  /\ Parsed(c) /\ c.other_id = <<>> /\ c.cmte_id # <<>> )
                => /\ stats'.date = stats.date
                   /\ IF Len(c.zip_code) = 5
                      THEN CountOf(stats'.zip_code, c.cmte_id, c.zip_code)
                           = CountOf(stats.zip_code, c.cmte_id, c.zip_code) + 1
                      ELSE stats'.zip_code = stats.zip_code
            /\ ( /\ DateStep
                  /\ Parsed(c) /\ c.other_id = <<>> /\ c.cmte_id # <<>> )
                => /\ stats'.zip_code = stats.zip_code
                   /\ IF Len(c.transaction_dt) = 8
                      THEN CountOf(stats'.date, c.cmte_id, c.transaction_dt)
                           = CountOf(stats.date, c.cmte_id,
                                     c.transaction_dt) + 1
                      ELSE stats'.date = stats.date ]_vars

\* a first record with a 3-character zip code and an 8-character date is in
\* the date family and not in the zip-code family
C5_Witness ==
    /\ pc = "client"
    /\ {"zip", "date"} \subseteq calls
    /\ contribution.zip_code = Zip3
    /\ Len(contribution.transaction_dt) = 8
    /\ stats.zip_code = EmptyDict
    /\ CountOf(stats.date, contribution.cmte_id,
               contribution.transaction_dt) = 1

(***************************************************************************)
(* C6.  A record whose amount is empty or not a number changes no          *)
(* estimator of either family: neither its parse nor any call made for it  *)
(* changes an aggregator.                                                  *)
(***************************************************************************)
C6_UnparsedAmountChangesNothing ==
    [][ ( /\ "create" \in calls'
          /\ contribution'.transaction_amt = None )
        => stats' = stats ]_vars

\* every call was made for a line whose amount is empty, while the
\* aggregators hold estimators
C6_Witness ==
    /\ calls = AllCalls
    /\ contribution.transaction_amt = None
    /\ contribution.transaction_dt = Date2
    /\ split(row, Bar)[15] = <<>>
    /\ stats.zip_code # EmptyDict
    /\ stats.date # EmptyDict

(***************************************************************************)
(* C7.  When the script has ended, the zip stream holds exactly one line   *)
(* for each record the zip-code predicate accepts and none for any other,  *)
(* in the order the records arrived.                                       *)
(***************************************************************************)
C7_OneLinePerAccepted ==
    pc \in {"done", "raised"} =>
        /\ Len(writer_zip) = Len(accepted.zip_seq)
        /\ \A i \in 1..Len(writer_zip) :
               LineKey(writer_zip[i]) = accepted.zip_seq[i]

(***************************************************************************)
(* C8.  Each zip-stream line shows the estimator of its (recipient, zip)   *)
(* as it is once the record has been offered: its count is the number of   *)
(* accepted records of that pair so far, the current one included, and     *)
(* its total is the rounded sum of their amounts.                          *)
(***************************************************************************)
C8_LineReflectsRecord ==
    [][ Len(writer_zip') > Len(writer_zip) =>
          LET line == writer_zip'[Len(writer_zip')]
              pair == <<contribution.cmte_id, contribution.zip_code>>
          IN  /\ writer_zip' = Append(writer_zip, line)
              /\ LineKey(line) = pair
              /\ pair \in DOMAIN accepted.zip_code
              /\ ShowsAmounts(line, accepted.zip_code[pair]) ]_vars

\* the second accepted record of a pair has its line: count 2, and a total
\* of 0.50 + 2.49 shown as 3
C8_Witness ==
    /\ "write" \in calls
    /\ ZipAccepts(contribution)
    /\ Len(writer_zip) >= 2
    /\ LineKey(writer_zip[Len(writer_zip)])
         = <<contribution.cmte_id, contribution.zip_code>>
    /\ Fields(writer_zip[Len(writer_zip)])[4] = str(2)
    /\ Fields(writer_zip[Len(writer_zip)])[5] = str(3)

(***************************************************************************)
(* C9.  StatsByDate.write gives exactly one line for each (recipient,      *)
(* date) that had an accepted record, by recipient ascending and then by   *)
(* date ascending, whatever the order in which the records arrived.        *)
(***************************************************************************)
C9_DateLinesSorted ==
    pc \in {"batched", "closed"} =>
        /\ {LineKey(writer_date[i]) : i \in 1..Len(writer_date)}
             = DOMAIN accepted.date
        /\ \A i \in 1..Len(writer_date) - 1 :
               KeyLess(LineKey(writer_date[i]), LineKey(writer_date[i + 1]))

\* two recipients with two dates each, the pair that sorts first having
\* arrived last
C9_Witness ==
    /\ pc = "batched"
    /\ Len(writer_date) = 4
    /\ LineKey(writer_date[1]) = <<RecipA, Date1>>
    /\ LineKey(writer_date[4]) = <<RecipB, Date2>>
    /\ contribution.cmte_id = RecipA
    /\ contribution.transaction_dt = Date1
    /\ DateAccepts(contribution)

(***************************************************************************)
(* C10.  When the script has ended, the date stream holds, for each        *)
(* (recipient, date) with a record the date predicate accepts, a line with *)
(* the number of those records as its count and the rounded sum of their   *)
(* amounts as its total.                                                   *)
(***************************************************************************)
C10_DateBatchComplete ==
    pc \in {"done", "raised"} =>
        \A pair \in DOMAIN accepted.date :
            \E i \in 1..Len(writer_date) :
                /\ LineKey(writer_date[i]) = pair
                /\ ShowsAmounts(writer_date[i], accepted.date[pair])

(***************************************************************************)
(* C11.  The script writes the date stream only once the input is          *)
(* exhausted, and once: write_stats('date') is called only after readline  *)
(* gave no line, and from that call on nothing is read, no zip-stream line *)
(* is written and the date stream is not written again.                    *)
(***************************************************************************)
C11_DateAfterInput ==
    [][ /\ (pc' = "batch" \/ (pc = "batch" /\ pc' # "batch"))
            => (row' = <<>> /\ nread' >= 1)
        /\ writer_date' # writer_date => pc = "batch"
        /\ pc \in {"batch", "close", "done"}
            => /\ pc' \in {"close", "done"}
               /\ row' = row
               /\ nread' = nread
               /\ writer_zip' = writer_zip
        /\ pc \in {"close", "done"} => writer_date' = writer_date ]_vars

\* the script has read two records and the end of the input, has called
\* write_stats('date') and has closed
C11_Witness ==
    /\ pc = "done"
    /\ nread >= 3
    /\ row = <<>>
    /\ exc = ""

(***************************************************************************)
(* C12.  The median, count and total of every emitted line are rounded to  *)
(* the nearest whole unit with every exact half rounded up, for even and   *)
(* for odd whole parts alike.                                              *)
(***************************************************************************)
ShowsHalfUp(line, estimator) ==
    /\ Fields(line)[3] = str(roundHalfUp(estimator.median))
    /\ Fields(line)[4] = str(estimator.count)
    /\ Fields(line)[5] = str(roundHalfUp(estimator.total))

C12_HalvesRoundUp ==
    [][ /\ Len(writer_zip') > Len(writer_zip)
            => ShowsHalfUp(writer_zip'[Len(writer_zip')],
                           stats.zip_code[contribution.cmte_id]
                                         [contribution.zip_code])
        /\ Len(writer_date') > Len(writer_date)
            => \A i \in 1..Len(writer_date') :
                   LET key == LineKey(writer_date'[i])
                   IN  ShowsHalfUp(writer_date'[i],
                                   stats.date[key[1]][key[2]]) ]_vars

(***************************************************************************)
(* Helpers for stating the claims about the two heaps.                     *)
(***************************************************************************)
\* the values of the lower side, the negation undone
Lower(self) == [i \in 1..Len(self.maxheap) |-> 0 - self.maxheap[i]]

\* the values of the upper side
Upper(self) == self.minheap

Occurrences(seq, v) == Cardinality({i \in 1..Len(seq) : seq[i] = v})

Members(seq) == {seq[i] : i \in 1..Len(seq)}

\* kept is what remains of full when all but its HeapKeep members nearest
\* the boundary are dropped; Nearer(a, b): a is at least as near as b
KeepsNearest(kept, full, Nearer(_, _)) ==
    /\ Len(kept) = (IF Len(full) < HeapKeep THEN Len(full) ELSE HeapKeep)
    /\ \A v \in Members(kept) : Occurrences(kept, v) <= Occurrences(full, v)
    /\ \A v \in Members(full) :
           Occurrences(kept, v) < Occurrences(full, v)
           => \A w \in Members(kept) : Nearer(w, v)

AtLeast(a, b) == a >= b

AtMost(a, b) == a <= b

(***************************************************************************)
(* C13.  After every add each heap holds at most 3 values: the 3 largest   *)
(* of the lower side and the 3 smallest of the upper side as they stood    *)
(* after the balancing, all of them when there are fewer than 3.           *)
(***************************************************************************)
C13_KeepsThreeNearest ==
    [][ rm' # rm =>
          \E val \in Values :
              /\ added' = InsertSorted(added, val)
              /\ Len(rm'.maxheap) <= 3
              /\ Len(rm'.minheap) <= 3
              /\ KeepsNearest(Lower(rm'), Lower(Rebalance(rm, val)), AtLeast)
              /\ KeepsNearest(Upper(rm'), Upper(Rebalance(rm, val)), AtMost)
      ]_vars

\* nine values were added, so each side has dropped values, and the three
\* kept on the lower side are not all the same
C13_Witness ==
    /\ rm.count = 9
    /\ Len(rm.maxheap) = 3
    /\ Len(rm.minheap) = 3
    /\ rm.maxheap[1] # rm.maxheap[3]

(***************************************************************************)
(* C14.  After every add, every value kept on the lower side is at most    *)
(* every value kept on the upper side.                                     *)
(***************************************************************************)
C14_LowerBelowUpper ==
    \A i \in 1..Len(rm.maxheap) : \A j \in 1..Len(rm.minheap) :
        Lower(rm)[i] <= Upper(rm)[j]

\* both sides are full after truncation and hold different values
C14_Witness ==
    /\ rm.count >= 8
    /\ Len(rm.maxheap) = 3
    /\ Len(rm.minheap) = 3
    /\ Lower(rm)[3] < Lower(rm)[1]
    /\ Lower(rm)[1] <= Upper(rm)[1]
    /\ Upper(rm)[1] < Upper(rm)[3]

(***************************************************************************)
(* C15.  After every add, the numbers of values kept on the two sides      *)
(* differ by at most 1 and the lower side is never the smaller.            *)
(***************************************************************************)
C15_SizesBalanced ==
    /\ Len(rm.maxheap) >= Len(rm.minheap)
    /\ Len(rm.maxheap) - Len(rm.minheap) <= 1

\* the seventh add: the lower side had four values and keeps three
C15_Witness ==
    /\ rm.count = 7
    /\ ~rm.even
    /\ Len(rm.maxheap) = 3
    /\ Len(rm.minheap) = 3

(***************************************************************************)
(* C16.  After every add the median follows the sizes: with as many values *)
(* kept on the lower side as on the upper side it is the mean of the       *)
(* largest lower and the smallest upper value, otherwise it is the         *)
(* boundary value of the side that keeps one more.                         *)
(***************************************************************************)
C16_MedianBySizes ==
    rm.count >= 1 =>
        IF Len(rm.maxheap) = Len(rm.minheap)
        THEN 2 * rm.median = Lower(rm)[1] + Upper(rm)[1]
        ELSE IF Len(rm.maxheap) > Len(rm.minheap)
        THEN rm.median = Lower(rm)[1]
        ELSE rm.median = Upper(rm)[1]

(***************************************************************************)
(* C17.  A line that is empty or holds only its newline ends the stream:   *)
(* read_contribution reports that there is no record, nothing is parsed    *)
(* from it and the script goes on to the date batch without an error.      *)
(***************************************************************************)
C17_BlankLineEndsStream ==
    (pc # "while" /\ row \in {<<>>, <<NewLine>>}) =>
        /\ pc \in {"batch", "close", "done"}
        /\ exc = ""

(***************************************************************************)
(* C18.  In each aggregator the (recipient, group) keys only grow: no call *)
(* removes a recipient or a group, and every estimator an aggregator holds *)
(* has a count of at least 1.                                              *)
(***************************************************************************)
KeysKept(old, new) ==
    \A cmte_id \in DOMAIN old :
        /\ cmte_id \in DOMAIN new
        /\ DOMAIN old[cmte_id] \subseteq DOMAIN new[cmte_id]

\* a key that appears holds an estimator with one value
CreatedByAdd(old, new) ==
    \A cmte_id \in DOMAIN new : \A group \in DOMAIN new[cmte_id] :
        CountOf(old, cmte_id, group) = 0 => new[cmte_id][group].count = 1

AllCounted(data) ==
    \A cmte_id \in DOMAIN data :
        /\ DOMAIN data[cmte_id] # {}
        /\ \A group \in DOMAIN data[cmte_id] :
               data[cmte_id][group].count >= 1

C18_KeysOnlyGrow ==
    [][ /\ KeysKept(stats.zip_code, stats'.zip_code)
        /\ KeysKept(stats.date, stats'.date)
        /\ CreatedByAdd(stats.zip_code, stats'.zip_code)
        /\ CreatedByAdd(stats.date, stats'.date)
        /\ AllCounted(stats'.zip_code)
        /\ AllCounted(stats'.date) ]_vars

\* after the date batch and the close, both recipients are still there,
\* one of them with two dates and two zip codes
C18_Witness ==
    /\ pc = "closed"
    /\ DOMAIN stats.date = {RecipA, RecipB}
    /\ DOMAIN stats.date[RecipA] = {Date1, Date2}
    /\ Cardinality(DOMAIN stats.zip_code[RecipA]) = 2
    /\ Len(writer_date) = 3

(***************************************************************************)
(* C19.  Stats.add for a record of recipient r and group g changes the     *)
(* estimator at (r, g) alone: every other estimator of the aggregator      *)
(* stays as it was, no other key appears, and the aggregator of the other  *)
(* family is unchanged.                                                    *)
(***************************************************************************)
OthersUntouched(old, new, cmte_id, group) ==
    /\ \A r \in DOMAIN old : \A g \in DOMAIN old[r] :
           (r # cmte_id \/ g # group)
           => /\ r \in DOMAIN new
              /\ g \in DOMAIN new[r]
              /\ new[r][g] = old[r][g]
    /\ \A r \in DOMAIN new : \A g \in DOMAIN new[r] :
           (r # cmte_id \/ g # group)
           => (r \in DOMAIN old /\ g \in DOMAIN old[r])

C19_AddTouchesOneEstimator ==
    [][ /\ (ZipStep /\ stats' # stats)
            => /\ stats'.date = stats.date
               /\ OthersUntouched(stats.zip_code, stats'.zip_code,
                                   contribution.cmte_id,
                                   contribution.zip_code)
               /\ stats'.zip_code[contribution.cmte_id]
                                  [contribution.zip_code]
                   # RunningMedian
        /\ (DateStep /\ stats' # stats)
            => /\ stats'.zip_code = stats.zip_code
               /\ OthersUntouched(stats.date, stats'.date,
                                   contribution.cmte_id,
                                   contribution.transaction_dt)
               /\ stats'.date[contribution.cmte_id]
                              [contribution.transaction_dt]
                   # RunningMedian ]_vars

\* a record was just added to a zip-code estimator that had a record
\* before, beside another zip code of the recipient and another recipient
C19_Witness ==
    /\ calls = {"create", "zip"}
    /\ ret = "True"
    /\ contribution.cmte_id = RecipA
    /\ CountOf(stats.zip_code, RecipA, contribution.zip_code) = 2
    /\ Cardinality(DOMAIN stats.zip_code[RecipA]) = 2
    /\ RecipB \in DOMAIN stats.zip_code

(***************************************************************************)
(* C20.  After every add, however far truncation has made it drift, the    *)
(* median lies between the smallest and the largest value added and is a   *)
(* value that was added or the mean of two values that were added.         *)
(***************************************************************************)
C20_MedianAmongAdded ==
    rm.count >= 1 =>
        /\ added[1] <= rm.median
        /\ rm.median <= added[Len(added)]
        /\ \E a \in Members(added) : \E b \in Members(added) :
               2 * rm.median = a + b

\* twelve adds, and the median is no longer the true median
C20_Witness ==
    /\ rm.count = 12
    /\ rm.median # TrueMedian(added)
    /\ added[1] < rm.median
    /\ rm.median < added[Len(added)]

====
